---- MODULE Spec2Model ----
(***************************************************************************)
(* A model of kaval's experiment core (expcore.py): the configuration      *)
(* explosion engine, the rendering of option bags into command arguments,  *)
(* the input descriptors' argument rendering and the resolution of a       *)
(* suite's inputs; of the driver (run-experiments.py); and of the          *)
(* backends (runners.py): job naming and sizing, config.json, the          *)
(* immediate backend's run of its jobs, and a suite file's way from        *)
(* load_suite_from_yaml to the end of execute.                             *)
(*                                                                         *)
(* Python values are modelled as uniformly shaped records                  *)
(*     [k |-> kind, n |-> number, items |-> sequence of values]            *)
(* so that isinstance tests are tests of the kind k.  The nested           *)
(* {type, value} dictionaries of typed options are objects on a heap and   *)
(* values of kind "dict" are references (addresses) into it: explode       *)
(* writes through such references.  Lists are never written to by the      *)
(* modelled code and are therefore kept as plain values.                   *)
(***************************************************************************)
EXTENDS Integers, Sequences, FiniteSets, TLC

VARIABLES
    \* ---- explode ----
    heap,      \* the nested {type, value} dictionaries, by address
    config,    \* the record handed to explode: a sequence of [key, val]
    input0,    \* the value of that record when explode was called
    configs,   \* the list explode returned
    pc,        \* "ready" | "exploded" | "idle"
    \* ---- params_to_args / DummyInstance.args ----
    rparams,   \* the parameter bag being rendered, in key order
    rscale,    \* DummyInstance.scale_weak_params
    rmode,     \* which renderer runs: "params_to_args" | "DummyInstance.args"
    rtopo,     \* [mpi_ranks, threads_per_rank] of the call
    escape,    \* the escape argument of the call
    rpos,      \* options handled so far by for_each_argument
    rargs,     \* the list of argument strings built so far
    rpc,       \* "loop" | "returned" | "AttributeError" | "idle"
    \* ---- FileInputGraph.args / KaGenGraph.args ----
    inp,       \* the input descriptor
    ikwargs,   \* the n, N, m, M its constructor was given (None: not given)
    icall,     \* [mpi_ranks, threads_per_rank, escape] of the call
    iout,      \* the returned argument list
    ipc,       \* "called" | "returned" | "sys.exit(1)" | "idle"
    \* ---- ExperimentSuite.load_inputs ----
    lobjs,     \* the input descriptor objects, by address
    ldicts,    \* the partition dictionaries of those objects, by address
    linput_dict,  \* the catalog: input name -> address of its descriptor
    lpartitions,  \* the partitions argument: input name -> partition map
    linputs,   \* self.inputs
    linputs_new,  \* the local list inputs_new (addresses)
    lpos,      \* entries of self.inputs handled so far
    lgraph_name,  \* the local variable graph_name, Unbound until assigned
    lwarn,     \* the names the warnings were logged for
    lpc,       \* "loop" | "returned" | "UnboundLocalError" | "idle"
    \* ---- run-experiments.py main ----
    msuites,   \* the loaded suites, in the order of suites.keys()
    margs,     \* the parsed command line
    mpos,      \* names handled so far by the running loop
    mloads,    \* suite name -> number of load_inputs calls on that suite
    mexecs,    \* the names of the suites runner.execute was called with
    mpc,       \* "load_inputs" | "execute" | "done" | "exit(0)" | an exception | "idle"
    \* ---- SharedMemoryRunner.execute / SBatchRunner.execute ----
    suite,     \* the experiment suite handed to execute
    runner,    \* the runner's own fields
    jpos,      \* iterations of execute's job loop done so far
    jobs,      \* the per-variant jobs so far: index tuple and name
    scripts,   \* the job scripts written so far
    cfgs,      \* the configuration record objects, by address
    suite_configs,  \* experiment_suite.configs: the addresses of its records
    config_json,    \* the records dump_config wrote to config.json
    jpc        \* "dump_config" | "execute" | "finished" | "idle"

explodeVars == <<heap, config, input0, configs, pc>>
renderVars == <<rparams, rscale, rmode, rtopo, escape, rpos, rargs, rpc>>
inputVars == <<inp, ikwargs, icall, iout, ipc>>
loadVars == <<lobjs, ldicts, linput_dict, lpartitions, linputs, linputs_new,
              lpos, lgraph_name, lwarn, lpc>>
mainVars == <<msuites, margs, mpos, mloads, mexecs, mpc>>
runnerVars == <<suite, runner, jpos, jobs, scripts, cfgs, suite_configs,
                config_json, jpc>>
vars == <<explodeVars, renderVars, inputVars, loadVars, mainVars, runnerVars>>

\* The parts of the state a specification does not use stay idle.
ExplodeIdle ==
    /\ heap = <<>>
    /\ config = <<>>
    /\ input0 = <<>>
    /\ configs = <<>>
    /\ pc = "idle"

RenderIdle ==
    /\ rparams = <<>>
    /\ rscale = {}
    /\ rmode = "idle"
    /\ rtopo = [mpi_ranks |-> 1, threads_per_rank |-> 1]
    /\ escape = FALSE
    /\ rpos = 0
    /\ rargs = <<>>
    /\ rpc = "idle"

InputIdle ==
    /\ inp = <<>>
    /\ ikwargs = <<>>
    /\ icall = <<>>
    /\ iout = <<>>
    /\ ipc = "idle"

LoadIdle ==
    /\ lobjs = <<>>
    /\ ldicts = <<>>
    /\ linput_dict = <<>>
    /\ lpartitions = <<>>
    /\ linputs = <<>>
    /\ linputs_new = <<>>
    /\ lpos = 0
    /\ lgraph_name = <<>>
    /\ lwarn = <<>>
    /\ lpc = "idle"

MainIdle ==
    /\ msuites = <<>>
    /\ margs = <<>>
    /\ mpos = 0
    /\ mloads = <<>>
    /\ mexecs = <<>>
    /\ mpc = "idle"

RunnerIdle ==
    /\ suite = <<>>
    /\ runner = <<>>
    /\ jpos = 0
    /\ jobs = <<>>
    /\ scripts = <<>>
    /\ cfgs = <<>>
    /\ suite_configs = <<>>
    /\ config_json = <<>>
    /\ jpc = "idle"

----------------------------------------------------------------------------
(* Bounds and sample values *)

MaxLen == 2                      \* longest list drawn as an input
Scalars == {1, 2}                \* sample scalar option values
InnerLists == {<<>>, <<1>>, <<1, 2>>}   \* sample inner lists of a list of lists

----------------------------------------------------------------------------
(* Python values *)

IntV(i) == [k |-> "int", n |-> i, items |-> <<>>]
BoolV(b) == [k |-> "bool", n |-> IF b THEN 1 ELSE 0, items |-> <<>>]
ListV(s) == [k |-> "list", n |-> 0, items |-> s]
DictRef(a) == [k |-> "dict", n |-> a, items |-> <<>>]

isinstance_list(v) == v.k = "list"
isinstance_dict(v) == v.k = "dict"
isinstance_bool(v) == v.k = "bool"
\* bool is a subclass of int in Python
isinstance_int(v) == v.k = "int" \/ v.k = "bool"

SeqsUpTo(S, m) == UNION {[1..l -> S] : l \in 0..m}

ScalarValues == {IntV(i) : i \in Scalars}
PlainLists == {ListV(s) : s \in SeqsUpTo(ScalarValues, MaxLen)}
InnerListValues == {ListV([j \in 1..Len(s) |-> IntV(s[j])]) : s \in InnerLists}
ListsOfLists == {ListV(s) : s \in SeqsUpTo(InnerListValues, MaxLen)}
OptionValues == ScalarValues \cup PlainLists \cup ListsOfLists

----------------------------------------------------------------------------
(* The argument model *)

\* Enum members are modelled by their values: FLAG_LIST has the value of
\* POSITIONAL_LIST, which makes it an alias of that member.
CLIArgumentType_FLAG == "('flag',)"
CLIArgumentType_POSITIONAL == "positional"
CLIArgumentType_POSITIONAL_LIST == "positional_list"
CLIArgumentType_FLAG_LIST == "positional_list"

TypeStrings == {"flag", "positional", "positional_list", "flag_list"}

get_argument_type_from_str(arg_type) ==
    IF arg_type = "flag" THEN CLIArgumentType_FLAG
    ELSE IF arg_type = "positional" THEN CLIArgumentType_POSITIONAL
    ELSE IF arg_type = "positional_list" THEN CLIArgumentType_POSITIONAL_LIST
    ELSE IF arg_type = "flag_list" THEN CLIArgumentType_FLAG_LIST
    ELSE "sys.exit(1)"

is_list_of_list(val) ==
    /\ isinstance_list(val)
    /\ \A j \in 1..Len(val.items) : isinstance_list(val.items[j])

is_argument_explosive_mut(arg_type, arg_val) ==
    \/ /\ arg_type \in {CLIArgumentType_FLAG_LIST, CLIArgumentType_POSITIONAL_LIST}
       /\ isinstance_list(arg_val)
    \/ /\ arg_type \in {CLIArgumentType_FLAG, CLIArgumentType_POSITIONAL}
       /\ isinstance_list(arg_val)

is_argument_explosive(arg_type, arg_val) ==
    IF /\ arg_type \in {CLIArgumentType_FLAG_LIST, CLIArgumentType_POSITIONAL_LIST}
       /\ is_list_of_list(arg_val)
    THEN TRUE
    ELSE IF /\ arg_type \in {CLIArgumentType_FLAG, CLIArgumentType_POSITIONAL}
            /\ isinstance_list(arg_val)
    THEN TRUE
    ELSE FALSE

----------------------------------------------------------------------------
(* explode *)

\* The addresses a record's typed options refer to, in key order.
DictIndices(cfg) == {i \in 1..Len(cfg) : isinstance_dict(cfg[i].val)}

\* copy.deepcopy(config): every nested dictionary is copied to a fresh
\* address; the copy refers to the fresh ones.
deepcopy(h, cfg) ==
    LET rank(i) == Cardinality({j \in DictIndices(cfg) : j <= i})
        fresh == [r \in 1..Cardinality(DictIndices(cfg)) |->
                    LET i == CHOOSE i \in DictIndices(cfg) : rank(i) = r
                    IN h[cfg[i].val.n]]
    IN [heap |-> h \o fresh,
        config |-> [i \in 1..Len(cfg) |->
                      IF i \in DictIndices(cfg)
                      THEN [cfg[i] EXCEPT !.val = DictRef(Len(h) + rank(i))]
                      ELSE cfg[i]]]

\* config.copy(): a new top-level dictionary holding the same references.
shallowcopy(h, cfg) == [heap |-> h, config |-> cfg]

\* The first key, in iteration order, at which explode's loop breaks: a
\* typed option that is explosive, or a bare list.  0 when there is none.
IsPivot(h, cfg, i) ==
    IF isinstance_dict(cfg[i].val)
    THEN is_argument_explosive(
             get_argument_type_from_str(h[cfg[i].val.n].type),
             h[cfg[i].val.n].value)
    ELSE isinstance_list(cfg[i].val)

Pivot(h, cfg) ==
    IF \E i \in 1..Len(cfg) : IsPivot(h, cfg, i)
    THEN CHOOSE i \in 1..Len(cfg) :
            /\ IsPivot(h, cfg, i)
            /\ \A j \in 1..(i - 1) : ~IsPivot(h, cfg, j)
    ELSE 0

\* lines 544-547: an empty collection means the record itself is returned
explode_result_mut(cfg, cs) == cs

explode_result(cfg, cs) == IF cs = <<>> THEN <<cfg>> ELSE cs

RECURSIVE explode(_, _)
RECURSIVE explode_loop(_, _, _, _, _, _)

\* The body of the two for-loops over the pivot's values: args is the list
\* object being iterated, j the position, cs the records collected so far.
explode_loop(h, cfg, i, args, j, cs) ==
    IF j > Len(args)
    THEN [heap |-> h, configs |-> cs]
    ELSE LET arg == args[j]
             typed == isinstance_dict(cfg[i].val)
             cp == IF typed /\ isinstance_list(arg)
                   THEN deepcopy(h, cfg)
                   ELSE shallowcopy(h, cfg)
             \* exploded[flag]["value"] = arg   or   exploded[flag] = arg
             h2 == IF typed
                   THEN [cp.heap EXCEPT ![cp.config[i].val.n].value = arg]
                   ELSE cp.heap
             exploded == IF typed
                         THEN cp.config
                         ELSE [cp.config EXCEPT ![i].val = arg]
             exp == explode(h2, exploded)
         IN explode_loop(exp.heap, cfg, i, args, j + 1, cs \o exp.configs)

explode(h, cfg) ==
    LET i == Pivot(h, cfg)
    IN IF i = 0
       THEN [heap |-> h, configs |-> explode_result(cfg, <<>>)]
       ELSE LET args == IF isinstance_dict(cfg[i].val)
                        THEN h[cfg[i].val.n].value.items
                        ELSE cfg[i].val.items
                r == explode_loop(h, cfg, i, args, 1, <<>>)
            IN [heap |-> r.heap, configs |-> explode_result(cfg, r.configs)]

----------------------------------------------------------------------------
(* Records as values: what a reader of the record sees *)

\* An option as written in the suite file: untyped (typ = "bare") or typed.
Deref(h, cfg) ==
    [i \in 1..Len(cfg) |->
        IF isinstance_dict(cfg[i].val)
        THEN [key |-> cfg[i].key, typ |-> h[cfg[i].val.n].type,
              val |-> h[cfg[i].val.n].value]
        ELSE [key |-> cfg[i].key, typ |-> "bare", val |-> cfg[i].val]]

\* The records a suite file can hold: one or two options, each untyped or
\* typed, with a scalar, a list or a list of lists as its value.
Options(key) == [key : {key}, typ : TypeStrings \cup {"bare"}, val : OptionValues]
InputRecords ==
    {<<a>> : a \in Options("a")}
        \cup {<<a, b>> : a \in Options("a"), b \in Options("b")}

\* Building the record as Python objects: each typed option gets its own
\* nested dictionary.
Load(rec) ==
    LET typedIdx == {i \in 1..Len(rec) : rec[i].typ # "bare"}
        rank(i) == Cardinality({j \in typedIdx : j <= i})
    IN [heap |-> [r \in 1..Cardinality(typedIdx) |->
                    LET i == CHOOSE i \in typedIdx : rank(i) = r
                    IN [type |-> rec[i].typ, value |-> rec[i].val]],
        config |-> [i \in 1..Len(rec) |->
                      [key |-> rec[i].key,
                       val |-> IF i \in typedIdx THEN DictRef(rank(i)) ELSE rec[i].val]]]

----------------------------------------------------------------------------
(* The explosion engine as a state machine *)

InitExplode ==
    /\ LoadIdle
    /\ MainIdle
    /\ RunnerIdle
    /\ RenderIdle
    /\ InputIdle
    /\ \E rec \in InputRecords :
          /\ heap = Load(rec).heap
          /\ config = Load(rec).config
          /\ input0 = rec
    /\ configs = <<>>
    /\ pc = "ready"

Explode ==
    /\ pc = "ready"
    /\ LET r == explode(heap, config)
       IN /\ heap' = r.heap
          /\ configs' = r.configs
    /\ pc' = "exploded"
    /\ UNCHANGED <<config, input0>>
    /\ UNCHANGED <<renderVars, inputVars, loadVars, mainVars, runnerVars>>

NextExplode == Explode

SpecExplode == InitExplode /\ [][NextExplode]_vars

----------------------------------------------------------------------------
(* Reading the engine's result *)

\* Whether an option of a record (as a value) is one explode treats as a
\* pivot: the rule of IsPivot, on the option as written.
IsExplosiveOption(o) ==
    IF o.typ = "bare"
    THEN isinstance_list(o.val)
    ELSE is_argument_explosive(get_argument_type_from_str(o.typ), o.val)

ExplosiveOptions(rec) == {i \in 1..Len(rec) : IsExplosiveOption(rec[i])}

IsScalar(v) == ~isinstance_list(v) /\ ~isinstance_dict(v)
IsListOfScalars(v) ==
    isinstance_list(v) /\ \A j \in 1..Len(v.items) : IsScalar(v.items[j])
IsListTyped(o) == o.typ \in {"flag_list", "positional_list"}
IsScalarTyped(o) == o.typ \in {"flag", "positional"}

\* An empty list somewhere in a value: as a pivot it has no values.
HasEmptyList(v) ==
    /\ isinstance_list(v)
    /\ \/ v.items = <<>>
       \/ \E j \in 1..Len(v.items) :
             isinstance_list(v.items[j]) /\ v.items[j].items = <<>>

\* The returned records as values, in the order returned.
Returned == [j \in 1..Len(configs) |-> Deref(heap, configs[j])]

Count(s, x) == Cardinality({j \in 1..Len(s) : s[j] = x})

\* The nested dictionaries a record refers to.
Refs(cfg) == {cfg[i].val.n : i \in DictIndices(cfg)}

----------------------------------------------------------------------------
(* C1..C5: the explosion engine *)

\* The case of C1: option i is the record's only explosive option, a
\* non-empty list of scalars under an untyped key or under a flag or
\* positional typed option.
C1Case(i) ==
    /\ ExplosiveOptions(input0) = {i}
    /\ input0[i].typ = "bare" \/ IsScalarTyped(input0[i])
    /\ IsListOfScalars(input0[i].val)
    /\ Len(input0[i].val.items) >= 1

\* C1: a record with exactly one explosive option of cardinality k explodes
\* into exactly k records, each equal to the input except that the option
\* holds one of the k values, and the multiset of the values held equals the
\* original list.
C1_OneOptionExplodesToItsValues ==
    pc = "exploded" =>
        \A i \in 1..Len(input0) :
            C1Case(i) =>
                LET items == input0[i].val.items
                    held == [j \in 1..Len(Returned) |-> Returned[j][i].val]
                IN /\ Len(configs) = Len(items)
                   /\ \A j \in 1..Len(Returned) :
                         /\ Len(Returned[j]) = Len(input0)
                         /\ Returned[j] = [input0 EXCEPT ![i].val = Returned[j][i].val]
                         /\ \E m \in 1..Len(items) : Returned[j][i].val = items[m]
                   /\ \A m \in 1..Len(items) :
                         Count(held, items[m]) = Count(items, items[m])

\* The case of C2: options 1 and 2 are both explosive, each a non-empty
\* list of scalars under an untyped key or a flag or positional typed option.
C2Case ==
    /\ Len(input0) = 2
    /\ \A i \in 1..2 :
          /\ input0[i].typ = "bare" \/ IsScalarTyped(input0[i])
          /\ IsListOfScalars(input0[i].val)
          /\ Len(input0[i].val.items) >= 1

\* C2: a record with two independent explosive options of cardinalities k1
\* and k2, bare or typed, explodes into exactly k1*k2 records, one for each
\* pair of values, with no two returned records equal.
C2_TwoOptionsExplodeToProduct ==
    (pc = "exploded" /\ C2Case) =>
        LET a == input0[1].val.items
            b == input0[2].val.items
        IN /\ Len(configs) = Len(a) * Len(b)
           /\ \A m \in 1..Len(a), n \in 1..Len(b) :
                 \E j \in 1..Len(Returned) :
                     Returned[j] = [input0 EXCEPT ![1].val = a[m], ![2].val = b[n]]
           /\ (\A m, n \in 1..Len(a) : m # n => a[m] # a[n])
                 /\ (\A m, n \in 1..Len(b) : m # n => b[m] # b[n])
              => \A j1, j2 \in 1..Len(Returned) :
                     j1 # j2 => Returned[j1] # Returned[j2]

\* The cases of C3 for a list-typed option i.
C3ListOfLists(i) ==
    /\ IsListTyped(input0[i])
    /\ is_list_of_list(input0[i].val)
    /\ Len(input0[i].val.items) >= 1

C3PlainList(i) ==
    /\ IsListTyped(input0[i])
    /\ isinstance_list(input0[i].val)
    /\ input0[i].val.items = <<>> \/ ~is_list_of_list(input0[i].val)

C4_NothingExplosiveReturnsInput ==
    (pc = "exploded" /\ ExplosiveOptions(input0) = {}) =>
        /\ Len(configs) = 1
        /\ configs[1] = config
        /\ Returned[1] = input0

C4_Witness ==
    /\ pc = "exploded"
    /\ ExplosiveOptions(input0) = {}
    /\ Len(input0) = 2
    /\ input0[1].typ = "flag"
    /\ input0[2].typ = "bare"
    /\ configs = <<config>>

\* C5: explode is pure value construction: after it returns the input
\* record, nested dictionaries included, is unchanged, and no two returned
\* records share a nested dictionary.
C5_ExplodeIsPure ==
    pc = "exploded" =>
        /\ Deref(heap, config) = input0
        /\ \A j1, j2 \in 1..Len(configs) :
              j1 # j2 => Refs(configs[j1]) \cap Refs(configs[j2]) = {}

----------------------------------------------------------------------------
(* Python strings are sequences of one-character strings. *)

Quote == "\""
Digits == <<"0", "1", "2", "3", "4", "5", "6", "7", "8", "9">>

RECURSIVE str_int(_)
\* str() of a non-negative int: its decimal digits
str_int(i) ==
    IF i < 10 THEN <<Digits[i + 1]>>
    ELSE str_int(i \div 10) \o <<Digits[(i % 10) + 1]>>

RECURSIVE join(_, _)
\* sep.join(strs)
join(sep, strs) ==
    IF strs = <<>> THEN <<>>
    ELSE IF Len(strs) = 1 THEN strs[1]
    ELSE strs[1] \o sep \o join(sep, Tail(strs))

RECURSIVE str_value(_)
\* str(val), as the f-strings of the renderers apply it
str_value(val) ==
    IF isinstance_bool(val) THEN (IF val.n = 1 THEN <<"T", "r", "u", "e">> ELSE <<"F", "a", "l", "s", "e">>)
    ELSE IF isinstance_list(val)
    THEN <<"[">> \o join(<<",", " ">>, [j \in 1..Len(val.items) |-> str_value(val.items[j])])
              \o <<"]">>
    ELSE str_int(val.n)

\* The truth value Python gives a value in a condition.
Truthy(val) ==
    IF isinstance_list(val) THEN val.items # <<>> ELSE val.n # 0

----------------------------------------------------------------------------
(* Rendering a parameter bag: params_to_args and DummyInstance.args *)

is_argument_flag_only_mut(arg_type, arg_value) ==
    arg_type = CLIArgumentType_FLAG /\ isinstance_list(arg_value)

is_argument_flag_only(arg_type, arg_value) ==
    arg_type = CLIArgumentType_FLAG /\ isinstance_bool(arg_value)

is_argument_positional(arg_type) ==
    arg_type \in {CLIArgumentType_POSITIONAL, CLIArgumentType_POSITIONAL_LIST}

\* for_each_argument: the type is FLAG unless the value is a {type, value}
\* dictionary.  An option is held here as written: typ = "bare" when its
\* value is no dictionary.
argument_type(o) ==
    IF o.typ = "bare" THEN CLIArgumentType_FLAG
    ELSE get_argument_type_from_str(o.typ)

\* "-" + ("-" if len(arg_key) > 1) + arg_key
flag_name(arg_key) ==
    <<"-">> \o (IF Len(arg_key) > 1 THEN <<"-">> ELSE <<>>) \o arg_key

\* if not isinstance(arg_value, list): arg_value = [arg_value]
pack(arg_value) ==
    IF isinstance_list(arg_value) THEN arg_value.items ELSE <<arg_value>>

\* f'"{val}"'
quoted(val) == <<Quote>> \o str_value(val) \o <<Quote>>

\* params_to_args.parse_argument: the string built for one option ("" when
\* nothing is appended)
parse_argument(arg_type, arg_key, arg_value) ==
    LET flag == IF /\ ~is_argument_positional(arg_type)
                   /\ \/ ~is_argument_flag_only(arg_type, arg_value)
                      \/ Truthy(arg_value)
                THEN flag_name(arg_key)
                ELSE <<>>
        values == IF ~is_argument_flag_only(arg_type, arg_value)
                  THEN <<" ">> \o join(<<" ">>,
                           [j \in 1..Len(pack(arg_value)) |-> quoted(pack(arg_value)[j])])
                  ELSE <<>>
    IN flag \o values

\* DummyInstance.do_scale_parameter
do_scale_parameter(scale_weak_params, parameter) == parameter \in scale_weak_params

\* DummyInstance.args.parse_argument calls self.get_scaled_arg_value for
\* every value of a weak-scaling parameter; the class defines no such
\* method (it defines get_scaled_value), so the first such call raises
\* AttributeError.
dummy_parse_raises(scale_weak_params, arg_type, arg_key, arg_value) ==
    /\ ~is_argument_flag_only(arg_type, arg_value)
    /\ do_scale_parameter(scale_weak_params, arg_key)
    /\ pack(arg_value) # <<>>

\* The sample bags: one or two options under the keys "k" and "key", each
\* untyped or typed, holding a bool, an int or a list of ints.
RenderKeys == {<<"k">>, <<"k", "e", "y">>}
RenderValues ==
    {BoolV(TRUE), BoolV(FALSE), IntV(12),
     ListV(<<>>), ListV(<<IntV(7)>>), ListV(<<IntV(7), IntV(12)>>)}
RenderOptions(key) ==
    [key : {key}, typ : TypeStrings \cup {"bare"}, val : RenderValues]
RenderBags ==
    UNION {{<<a>> : a \in RenderOptions(k1)} : k1 \in RenderKeys}
      \cup UNION {{<<a, b>> : a \in RenderOptions(k1), b \in RenderOptions(k2)} :
                    <<k1, k2>> \in {kk \in RenderKeys \X RenderKeys : kk[1] # kk[2]}}
Topologies ==
    {[mpi_ranks |-> 1, threads_per_rank |-> 1],
     [mpi_ranks |-> 2, threads_per_rank |-> 1],
     [mpi_ranks |-> 2, threads_per_rank |-> 2]}

InitRender ==
    /\ LoadIdle
    /\ MainIdle
    /\ RunnerIdle
    /\ ExplodeIdle
    /\ InputIdle
    /\ \E bag \in RenderBags, esc \in BOOLEAN :
          /\ rparams = bag
          /\ escape = esc
          /\ \/ /\ rmode = "params_to_args"
                /\ rscale = {}
                /\ rtopo = [mpi_ranks |-> 1, threads_per_rank |-> 1]
             \/ /\ rmode = "DummyInstance.args"
                /\ rscale \in SUBSET RenderKeys
                /\ rtopo \in Topologies
    /\ rpos = 0
    /\ rargs = <<>>
    /\ rpc = "loop"

\* One call of params_to_args' handler by for_each_argument.
ParamsToArgsParseArgument ==
    /\ rpc = "loop"
    /\ rmode = "params_to_args"
    /\ rpos < Len(rparams)
    /\ LET o == rparams[rpos + 1]
           arg == parse_argument(argument_type(o), o.key, o.val)
       IN rargs' = IF arg # <<>> THEN Append(rargs, arg) ELSE rargs
    /\ rpos' = rpos + 1
    /\ UNCHANGED <<rparams, rscale, rmode, rtopo, escape, rpc>>
    /\ UNCHANGED <<explodeVars, inputVars, loadVars, mainVars, runnerVars>>

\* One call of DummyInstance.args' handler by for_each_argument.
DummyArgsParseArgument ==
    /\ rpc = "loop"
    /\ rmode = "DummyInstance.args"
    /\ rpos < Len(rparams)
    /\ LET o == rparams[rpos + 1]
           arg == parse_argument(argument_type(o), o.key, o.val)
       IN IF dummy_parse_raises(rscale, argument_type(o), o.key, o.val)
          THEN /\ rpc' = "AttributeError"
               /\ UNCHANGED <<rargs, rpos>>
          ELSE /\ rargs' = IF arg # <<>> THEN Append(rargs, arg) ELSE rargs
               /\ rpos' = rpos + 1
               /\ UNCHANGED rpc
    /\ UNCHANGED <<rparams, rscale, rmode, rtopo, escape>>
    /\ UNCHANGED <<explodeVars, inputVars, loadVars, mainVars, runnerVars>>

\* return args / return params
RenderReturn ==
    /\ rpc = "loop"
    /\ rpos = Len(rparams)
    /\ rpc' = "returned"
    /\ UNCHANGED <<rparams, rscale, rmode, rtopo, escape, rpos, rargs>>
    /\ UNCHANGED <<explodeVars, inputVars, loadVars, mainVars, runnerVars>>

NextRender ==
    \/ ParamsToArgsParseArgument
    \/ DummyArgsParseArgument
    \/ RenderReturn

SpecRender == InitRender /\ [][NextRender]_vars

----------------------------------------------------------------------------
(* Input descriptors: FileInputGraph and KaGenGraph *)

MaxRanks == 4                    \* largest mpi_ranks a call is made with
ThreadCounts == {1, 2}           \* sample threads_per_rank
PartitionRanks == {2, 3, 4}      \* rank counts a partition map may hold
PartitionFiles == {<<"g", ".", "p", "2">>, <<"g", ".", "p", "4">>}   \* sample partition paths
GraphPath == <<"g">>
LogSizes == {3, 10}              \* sample N and M
ExplicitSizes == {1000}          \* sample n and m
None == -1                       \* Python's None, where an int may stand

RECURSIVE Pow2(_)
\* 1 << e
Pow2(e) == IF e = 0 THEN 1 ELSE 2 * Pow2(e - 1)

\* dict.get(key, None) on the partition map
partitions_get_mut(partitions, mpi_ranks) ==
    IF DOMAIN partitions = {} THEN <<>>
    ELSE partitions[CHOOSE r \in DOMAIN partitions :
                        \A q \in DOMAIN partitions : r <= q]

partitions_get(partitions, mpi_ranks) ==
    IF mpi_ranks \in DOMAIN partitions THEN partitions[mpi_ranks] ELSE <<>>

\* FileInputGraph.args: the returned list, or exit when the partition of a
\* partitioned input is missing.
FileInputGraph_args(self, mpi_ranks, threads_per_rank, esc) ==
    LET file_args == <<<<"-", "-", "g", "r", "a", "p", "h", "t", "y", "p", "e">>, <<"B", "R", "A", "I", "N">>, <<"-", "-", "i", "n", "f", "i", "l", "e", "_", "d", "i", "r">>, self.path>>
    IN IF self.partitioned /\ mpi_ranks > 1
       THEN LET partition_file == partitions_get(self.partitions, mpi_ranks)
            IN IF partition_file = <<>>
               THEN [pc |-> "sys.exit(1)", out |-> <<>>]
               ELSE [pc |-> "returned",
                     out |-> file_args \o <<<<"-", "-", "p", "a", "r", "t", "i", "t", "i", "o", "n", "i", "n", "g">>, partition_file>>]
       ELSE [pc |-> "returned", out |-> file_args]

\* stringify_params: a bool parameter gives its key, any other key=value
stringify_params(params) ==
    [j \in 1..Len(params) |->
        IF params[j].isbool THEN params[j].key
        ELSE params[j].key \o <<"=">> \o params[j].val]

\* KaGenGraph.__init__: n (m) is kwargs.get("n", 1 << int(kwargs["N"])):
\* the default is evaluated first, so a missing or None N (M) raises and
\* leaves n (m) None, whether or not n (m) was given.
KaGenGraph_init_size(explicit, log) ==
    IF log = None THEN None
    ELSE IF explicit # None THEN explicit
    ELSE Pow2(log)

KaGenGraph_init(params, n, N, m, M, scale_weak) ==
    [kind |-> "KaGenGraph",
     n |-> KaGenGraph_init_size(n, N),
     m |-> KaGenGraph_init_size(m, M),
     scale_weak |-> scale_weak,
     params |-> params,
     path |-> <<>>, partitions |-> <<>>, partitioned |-> FALSE]

FileInputGraph_init(path, partitions, partitioned) ==
    [kind |-> "FileInputGraph",
     path |-> path, partitions |-> partitions, partitioned |-> partitioned,
     n |-> None, m |-> None, scale_weak |-> FALSE, params |-> <<>>]

get_n_mut(self, p) == self.n

get_n(self, p) == IF self.scale_weak THEN self.n * p ELSE self.n

get_m(self, p) == IF self.scale_weak THEN self.m * p ELSE self.m

\* if self.n: / if self.m:
TruthyInt(i) == i # None /\ i # 0

\* The last position of character c in s, 0 when there is none.
LastIndex(s, c) ==
    IF \E j \in 1..Len(s) : s[j] = c
    THEN CHOOSE j \in 1..Len(s) : s[j] = c /\ \A q \in (j + 1)..Len(s) : s[q] # c
    ELSE 0

ParamIndex(params, key) ==
    IF \E j \in 1..Len(params) : params[j].key = key
    THEN CHOOSE j \in 1..Len(params) : params[j].key = key
    ELSE 0

StrParam(key, val) == [key |-> key, val |-> val, isbool |-> FALSE]
BoolParam(key) == [key |-> key, val |-> <<>>, isbool |-> TRUE]

\* KaGenGraph.preprocess_file_based_graphs_params: a partitioned_file input
\* becomes a file input whose filename carries the rank count.
preprocess_file_based_graphs_params(self, mpi_ranks) ==
    LET params == self.params
        t == ParamIndex(params, <<"t", "y", "p", "e">>)
        f == ParamIndex(params, <<"f", "i", "l", "e", "n", "a", "m", "e">>)
    IN IF t = 0 \/ params[t].val \notin {<<"p", "a", "r", "t", "i", "t", "i", "o", "n", "e", "d", "_", "f", "i", "l", "e">>, <<"p", "a", "r", "t", "i", "t", "i", "o", "n", "e", "d", "-", "f", "i", "l", "e">>}
       THEN params
       ELSE LET filename == params[f].val
                dot == LastIndex(filename, ".")
                path == SubSeq(filename, 1, dot - 1)
                graph_format == SubSeq(filename, dot + 1, Len(filename))
                extended_filename ==
                    path \o <<"_">> \o str_int(mpi_ranks) \o <<".">> \o graph_format
            IN [params EXCEPT ![t].val = <<"f", "i", "l", "e">>, ![f].val = extended_filename]
                 \o <<StrParam(<<"d", "i", "s", "t", "r", "i", "b", "u", "t", "i", "o", "n">>, <<"e", "x", "p", "l", "i", "c", "i", "t">>),
                      StrParam(<<"e", "x", "p", "l", "i", "c", "i", "t", "-", "d", "i", "s", "t", "r", "i", "b", "u", "t", "i", "o", "n">>,
                               extended_filename \o <<".", "p", "a", "r", "t", "i", "t", "i", "o", "n", "s">>)>>

\* KaGenGraph.args
KaGenGraph_args(self, mpi_ranks, threads_per_rank, esc) ==
    LET p == mpi_ranks * threads_per_rank
        params == stringify_params(preprocess_file_based_graphs_params(self, mpi_ranks))
        with_n == IF TruthyInt(self.n)
                  THEN Append(params, <<"n", "=">> \o str_int(get_n(self, p)))
                  ELSE params
        with_m == IF TruthyInt(self.m)
                  THEN Append(with_n, <<"m", "=">> \o str_int(get_m(self, p)))
                  ELSE with_n
        kagen_option_string == join(<<";">>, with_m)
    IN [pc |-> "returned",
        out |-> <<<<"-", "-", "k", "a", "g", "e", "n", "_", "o", "p", "t", "i", "o", "n", "_", "s", "t", "r", "i", "n", "g">>,
                  IF esc THEN <<Quote>> \o kagen_option_string \o <<Quote>>
                  ELSE kagen_option_string>>]

\* The sample descriptors.
PartitionMaps == UNION {[S -> PartitionFiles] : S \in SUBSET PartitionRanks}
FileInputs ==
    {FileInputGraph_init(GraphPath, pm, b) : pm \in PartitionMaps, b \in BOOLEAN}
KaGenParams ==
    {<<StrParam(<<"t", "y", "p", "e">>, <<"r", "g", "g", "2", "d">>)>>,
     <<StrParam(<<"t", "y", "p", "e">>, <<"g", "n", "m">>), BoolParam(<<"d", "i", "r", "e", "c", "t", "e", "d">>)>>,
     <<StrParam(<<"t", "y", "p", "e">>, <<"p", "a", "r", "t", "i", "t", "i", "o", "n", "e", "d", "_", "f", "i", "l", "e">>), StrParam(<<"f", "i", "l", "e", "n", "a", "m", "e">>, <<"g", ".", "b", "i", "n">>)>>}
KaGenInputs ==
    {KaGenGraph_init(ps, n, N, m, M, sw) :
        ps \in KaGenParams,
        n \in ExplicitSizes \cup {None}, N \in LogSizes \cup {None},
        m \in ExplicitSizes \cup {None}, M \in LogSizes \cup {None},
        sw \in BOOLEAN}

InitInput ==
    /\ LoadIdle
    /\ MainIdle
    /\ RunnerIdle
    /\ ExplodeIdle
    /\ RenderIdle
    /\ \/ /\ inp \in FileInputs
          /\ ikwargs = <<>>
       \/ \E ps \in KaGenParams, sw \in BOOLEAN,
             n \in ExplicitSizes \cup {None}, N \in LogSizes \cup {None},
             m \in ExplicitSizes \cup {None}, M \in LogSizes \cup {None} :
             /\ inp = KaGenGraph_init(ps, n, N, m, M, sw)
             /\ ikwargs = [n |-> n, N |-> N, m |-> m, M |-> M]
    /\ icall \in [mpi_ranks : 1..MaxRanks, threads_per_rank : ThreadCounts,
                  escape : BOOLEAN]
    /\ iout = <<>>
    /\ ipc = "called"

FileInputArgs ==
    /\ ipc = "called"
    /\ inp.kind = "FileInputGraph"
    /\ LET r == FileInputGraph_args(inp, icall.mpi_ranks, icall.threads_per_rank,
                                    icall.escape)
       IN /\ ipc' = r.pc
          /\ iout' = r.out
    /\ UNCHANGED <<inp, ikwargs, icall>>
    /\ UNCHANGED <<explodeVars, renderVars, loadVars, mainVars, runnerVars>>

KaGenArgs ==
    /\ ipc = "called"
    /\ inp.kind = "KaGenGraph"
    /\ LET r == KaGenGraph_args(inp, icall.mpi_ranks, icall.threads_per_rank,
                                icall.escape)
       IN /\ ipc' = r.pc
          /\ iout' = r.out
    /\ UNCHANGED <<inp, ikwargs, icall>>
    /\ UNCHANGED <<explodeVars, renderVars, loadVars, mainVars, runnerVars>>

NextInput ==
    \/ FileInputArgs
    \/ KaGenArgs

SpecInput == InitInput /\ [][NextInput]_vars

----------------------------------------------------------------------------
(* Reading rendered strings *)

FirstIndex(s, c) ==
    IF \E j \in 1..Len(s) : s[j] = c
    THEN CHOOSE j \in 1..Len(s) : s[j] = c /\ \A q \in 1..(j - 1) : s[q] # c
    ELSE 0

RECURSIVE Split(_, _)
\* The pieces of s between occurrences of the character c.
Split(s, c) ==
    IF FirstIndex(s, c) = 0 THEN <<s>>
    ELSE <<SubSeq(s, 1, FirstIndex(s, c) - 1)>>
            \o Split(SubSeq(s, FirstIndex(s, c) + 1, Len(s)), c)

NonEmpty(s) == s # <<>>

\* The words the shell sees in an argument string.
Tokens(s) == SelectSeq(Split(s, " "), NonEmpty)

IsQuoted(t) == Len(t) >= 2 /\ t[1] = Quote /\ t[Len(t)] = Quote
Unquote(t) == IF IsQuoted(t) THEN SubSeq(t, 2, Len(t) - 1) ELSE t
IsFlagToken(t) == t # <<>> /\ t[1] = "-"

\* The flag token of a key: -k for a one-character key, --key otherwise.
ExpectedFlagToken(key) ==
    IF Len(key) = 1 THEN <<"-", key[1]>> ELSE <<"-", "-">> \o key

\* An option declared (or defaulting to) kind Flag, and kind FlagList.
IsFlagKind(o) == o.typ \in {"bare", "flag"}
IsFlagListKind(o) == o.typ = "flag_list"

\* The renderer is about to handle option rpos + 1.
Handling == rpc = "loop" /\ rpos < Len(rparams)

----------------------------------------------------------------------------
(* C6..C8: argument rendering *)

\* C6: rendering a Flag option with a boolean value appends nothing when the
\* value is false and exactly the flag token, -k or --key, with no value
\* token when it is true.
C6_BooleanFlagRendering ==
    [][(/\ Handling
        /\ IsFlagKind(rparams[rpos + 1])
        /\ isinstance_bool(rparams[rpos + 1].val))
       => /\ rpc' = "loop"
          /\ rpos' = rpos + 1
          /\ IF rparams[rpos + 1].val = BoolV(TRUE)
             THEN rargs' = Append(rargs, ExpectedFlagToken(rparams[rpos + 1].key))
             ELSE rargs' = rargs]_vars

C6_Witness ==
    /\ rpc = "returned"
    /\ rmode = "params_to_args"
    /\ Len(rparams) = 2
    /\ rparams[1] = [key |-> <<"k", "e", "y">>, typ |-> "bare", val |-> BoolV(TRUE)]
    /\ rparams[2] = [key |-> <<"k">>, typ |-> "flag", val |-> BoolV(TRUE)]
    /\ rargs = <<<<"-", "-", "k", "e", "y">>, <<"-", "k">>>>

\* C7: rendering an option of kind Flag or FlagList with non-boolean
\* value(s) appends the flag token followed by one quoted token per value, a
\* scalar counting as a singleton list; a flag_list option too is rendered
\* with its leading flag token.
C7_FlagAndFlagListRendering ==
    [][(/\ Handling
        /\ rmode = "params_to_args"
        /\ IsFlagKind(rparams[rpos + 1]) \/ IsFlagListKind(rparams[rpos + 1])
        /\ ~isinstance_bool(rparams[rpos + 1].val))
       => LET o == rparams[rpos + 1]
              vals == IF isinstance_list(o.val) THEN o.val.items ELSE <<o.val>>
          IN /\ Len(rargs') = Len(rargs) + 1
             /\ SubSeq(rargs', 1, Len(rargs)) = rargs
             /\ Tokens(rargs'[Len(rargs')]) =
                   <<ExpectedFlagToken(o.key)>>
                      \o [j \in 1..Len(vals) |->
                            <<Quote>> \o str_value(vals[j]) \o <<Quote>>]]_vars

\* C8: every emitted non-flag value token is wrapped in double quotes when
\* the command is rendered with escape = true and is unquoted when it is
\* rendered with escape = false, for params_to_args and for
\* DummyInstance.args alike.
C8_QuotingFollowsEscape ==
    \A j \in 1..Len(rargs) :
        \A t \in 1..Len(Tokens(rargs[j])) :
            ~IsFlagToken(Tokens(rargs[j])[t]) =>
                (IsQuoted(Tokens(rargs[j])[t]) <=> escape)

----------------------------------------------------------------------------
(* C9, C10: input descriptors *)

Answered == ipc \in {"returned", "sys.exit(1)"}
Processes == icall.mpi_ranks * icall.threads_per_rank
IsPowerOfTwo(p) == \E e \in 0..p : Pow2(e) = p
Log2(p) == CHOOSE e \in 0..p : Pow2(e) = p

\* The key=value entries of the rendered KaGen option string.
KaGenEntries ==
    LET entries == Split(Unquote(iout[2]), ";")
    IN {entries[j] : j \in 1..Len(entries)}

\* C9: a partitioned FileInput rendered with mpi_ranks > 1 aborts when the
\* partition map has no entry for exactly that rank count and otherwise
\* emits the cataloged partition path of that rank count; with
\* mpi_ranks <= 1 or an unpartitioned input nothing is looked up and
\* nothing fails.
C9_PartitionLookupIsExact ==
    (Answered /\ inp.kind = "FileInputGraph") =>
        LET base == <<<<"-", "-", "g", "r", "a", "p", "h", "t", "y", "p", "e">>, <<"B", "R", "A", "I", "N">>, <<"-", "-", "i", "n", "f", "i", "l", "e", "_", "d", "i", "r">>, inp.path>>
            wanted == inp.partitioned /\ icall.mpi_ranks > 1
            present == icall.mpi_ranks \in DOMAIN inp.partitions
        IN /\ (wanted /\ ~present) => (ipc = "sys.exit(1)" /\ iout = <<>>)
           /\ (wanted /\ present) =>
                 /\ ipc = "returned"
                 /\ iout = base \o <<<<"-", "-", "p", "a", "r", "t", "i", "t", "i", "o", "n", "i", "n", "g">>,
                                     inp.partitions[icall.mpi_ranks]>>
           /\ ~wanted => (ipc = "returned" /\ iout = base)

C9_Witness ==
    /\ ipc = "returned"
    /\ inp.kind = "FileInputGraph"
    /\ inp.partitioned
    /\ icall.mpi_ranks = 4
    /\ DOMAIN inp.partitions = {2, 4}
    /\ inp.partitions[2] = <<"g", ".", "p", "2">>
    /\ inp.partitions[4] = <<"g", ".", "p", "4">>
    /\ Len(iout) = 6
    /\ iout[6] = <<"g", ".", "p", "4">>

\* The case of C10: a generator input with weak scaling whose vertex count
\* comes from a log2 exponent.
C10Case ==
    /\ Answered
    /\ inp.kind = "KaGenGraph"
    /\ inp.scale_weak
    /\ \E N \in LogSizes : inp.n = Pow2(N)

----------------------------------------------------------------------------
(* C11: weak scaling of a DummyInstance's parameters *)

\* C11: when DummyInstance.args handles a parameter with an integer value
\* v, it appends one argument whose value token is
\* v * mpi_ranks * threads_per_rank when the key is in the weak-scaling set
\* and v itself when it is not, and goes on with the next parameter.
C11_WeakScaledValueIsMultiplied ==
    [][(/\ Handling
        /\ rmode = "DummyInstance.args"
        /\ rparams[rpos + 1].val.k = "int")
       => LET o == rparams[rpos + 1]
              p == rtopo.mpi_ranks * rtopo.threads_per_rank
              v == IF do_scale_parameter(rscale, o.key) THEN o.val.n * p ELSE o.val.n
          IN /\ rpc' = "loop"
             /\ rpos' = rpos + 1
             /\ Len(rargs') = Len(rargs) + 1
             /\ LET toks == Tokens(rargs'[Len(rargs')])
                IN Unquote(toks[Len(toks)]) = str_int(v)]_vars

----------------------------------------------------------------------------
(* C12: the vertex and edge counts of a KaGen option string *)

\* The count the constructor arguments resolve to: the explicit count when
\* one was given, otherwise 2^log from the log2 form, None when neither was.
ResolvedCount(explicit, log) ==
    IF explicit # None THEN explicit
    ELSE IF log # None THEN Pow2(log)
    ELSE None

\* The entry the option string has to hold for a resolved count.
CountEntry(key, count) ==
    key \o <<"=">> \o str_int(IF inp.scale_weak THEN count * Processes ELSE count)

\* C12: the KaGen option string holds n=<count> and m=<count> for the
\* resolved vertex and edge counts, the explicit count when one was given
\* and otherwise 2^N / 2^M, written literally without weak scaling and
\* multiplied by mpi_ranks * threads_per_rank with it; n and m are resolved
\* independently of each other and an explicit n without N gives an n=
\* entry.
C12_OptionStringHoldsResolvedCounts ==
    (Answered /\ inp.kind = "KaGenGraph") =>
        /\ ipc = "returned"
        /\ ResolvedCount(ikwargs.n, ikwargs.N) # None =>
              CountEntry(<<"n">>, ResolvedCount(ikwargs.n, ikwargs.N)) \in KaGenEntries
        /\ ResolvedCount(ikwargs.m, ikwargs.M) # None =>
              CountEntry(<<"m">>, ResolvedCount(ikwargs.m, ikwargs.M)) \in KaGenEntries

----------------------------------------------------------------------------
(* Resolving a suite's inputs: ExperimentSuite.load_inputs *)

\* Descriptor objects are records on the heap lobjs; their partitions
\* attribute is the address of a dictionary on the heap ldicts, since
\* copy.copy copies the reference and not the dictionary.  A partition
\* dictionary is a function from rank counts to paths.

\* The value of a local variable that was never assigned.
Unbound == <<"<unbound>">>

\* FileInputGraph.__init__: partitions = {} (at address d), partitioned = False
FileInputGraph_new(name, d) == [name |-> name, partitions |-> d, partitioned |-> FALSE]

\* copy.copy(obj): a new object with the same attribute values, references
\* included
copy_copy(obj) == obj

\* dict.get(key, {})
dict_get(d, key) == IF key \in DOMAIN d THEN d[key] ELSE <<>>

\* dict.update(other)
dict_update(d, other) ==
    [r \in DOMAIN d \cup DOMAIN other |-> IF r \in DOMAIN other THEN other[r] ELSE d[r]]

\* FileInputGraph.add_partitions: self.partitions.update(partitions), on
\* the heap of dictionaries
add_partitions(dicts, self, partitions) ==
    [dicts EXCEPT ![self.partitions] = dict_update(@, partitions)]

\* The entries of self.inputs: a bare name, a (name, partitioned) tuple, or
\* a descriptor object given inline (ref, its address).
StrEntry(name) == [k |-> "str", name |-> name, partitioned |-> FALSE, ref |-> 0]
TupleEntry(name, partitioned) ==
    [k |-> "tuple", name |-> name, partitioned |-> partitioned, ref |-> 0]
ObjEntry(ref) == [k |-> "obj", name |-> <<>>, partitioned |-> FALSE, ref |-> ref]

\* The sample catalog holds the file inputs a and b; no input c is
\* cataloged.  Address 3 holds a generator input written inline in a suite.
CatalogNames == {<<"a">>, <<"b">>}
EntryNames == CatalogNames \cup {<<"c">>}
SuiteEntries ==
    {StrEntry(nm) : nm \in EntryNames}
      \cup {TupleEntry(nm, b) : nm \in EntryNames, b \in BOOLEAN}
      \cup {ObjEntry(3)}
PartitionArguments ==
    {<<>>,
     (<<"a">> :> (2 :> <<"g", ".", "p", "2">>)),
     (<<"b">> :> (4 :> <<"h", ".", "p", "4">>)),
     (<<"a">> :> (2 :> <<"g", ".", "p", "2">>)) @@ (<<"b">> :> (4 :> <<"h", ".", "p", "4">>))}

InitLoadInputs ==
    /\ ExplodeIdle
    /\ RenderIdle
    /\ InputIdle
    /\ MainIdle
    /\ RunnerIdle
    /\ lobjs = <<FileInputGraph_new(<<"a">>, 1), FileInputGraph_new(<<"b">>, 2),
                 [name |-> <<"k">>, partitions |-> 0, partitioned |-> FALSE]>>
    /\ ldicts = <<<<>>, <<>>>>
    /\ linput_dict = (<<"a">> :> 1) @@ (<<"b">> :> 2)
    /\ lpartitions \in PartitionArguments
    /\ linputs \in SeqsUpTo(SuiteEntries, MaxLen) \ {<<>>}
    /\ linputs_new = <<>>
    /\ lpos = 0
    /\ lgraph_name = Unbound
    /\ lwarn = <<>>
    /\ lpc = "loop"

\* One iteration of the loop over self.inputs.
LoadInputsStep ==
    /\ lpc = "loop"
    /\ lpos < Len(linputs)
    /\ LET graph == linputs[lpos + 1]
           \* graph_name is assigned by the tuple branch only
           name_now == IF graph.k = "tuple" THEN graph.name ELSE lgraph_name
       IN IF graph.k = "obj"
          THEN /\ linputs_new' = Append(linputs_new, graph.ref)
               /\ lpos' = lpos + 1
               /\ UNCHANGED <<lobjs, ldicts, lgraph_name, lwarn, lpc>>
          ELSE IF graph.name \notin DOMAIN linput_dict
          THEN \* if not input: logging.warn(f"... {graph_name}"); continue
               IF name_now = Unbound
               THEN /\ lpc' = "UnboundLocalError"
                    /\ UNCHANGED <<lobjs, ldicts, linputs_new, lpos, lgraph_name, lwarn>>
               ELSE /\ lwarn' = Append(lwarn, name_now)
                    /\ lgraph_name' = name_now
                    /\ lpos' = lpos + 1
                    /\ UNCHANGED <<lobjs, ldicts, linputs_new, lpc>>
          ELSE LET input == copy_copy(lobjs[linput_dict[graph.name]])
               IN /\ IF graph.partitioned
                     THEN /\ ldicts' = add_partitions(ldicts, input,
                                                      dict_get(lpartitions, graph.name))
                          /\ lobjs' = Append(lobjs, [input EXCEPT !.partitioned = TRUE])
                     ELSE /\ ldicts' = ldicts
                          /\ lobjs' = Append(lobjs, input)
                  /\ linputs_new' = Append(linputs_new, Len(lobjs) + 1)
                  /\ lgraph_name' = name_now
                  /\ lpos' = lpos + 1
                  /\ UNCHANGED <<lwarn, lpc>>
    /\ UNCHANGED <<linput_dict, lpartitions, linputs>>
    /\ UNCHANGED <<explodeVars, renderVars, inputVars, mainVars, runnerVars>>

\* self.inputs = inputs_new
LoadInputsReturn ==
    /\ lpc = "loop"
    /\ lpos = Len(linputs)
    /\ linputs' = [j \in 1..Len(linputs_new) |-> ObjEntry(linputs_new[j])]
    /\ lpc' = "returned"
    /\ UNCHANGED <<lobjs, ldicts, linput_dict, lpartitions, linputs_new, lpos,
                   lgraph_name, lwarn>>
    /\ UNCHANGED <<explodeVars, renderVars, inputVars, mainVars, runnerVars>>

NextLoadInputs ==
    \/ LoadInputsStep
    \/ LoadInputsReturn

SpecLoadInputs == InitLoadInputs /\ [][NextLoadInputs]_vars

----------------------------------------------------------------------------
(* C13, C14: suite input resolution *)

\* The partition map an object holds.
PartitionMapOf(objs, dicts, a) == dicts[objs[a].partitions]

\* C13: resolving an input tagged partitioned leaves the catalog's
\* descriptor of every name as it was, partition map and partitioned flag
\* alike, and the suite's own clone carries the partition map given for
\* that name and partitioned = true.
C13_CatalogDescriptorIsNotMutated ==
    [][/\ \A nm \in DOMAIN linput_dict :
            /\ PartitionMapOf(lobjs', ldicts', linput_dict[nm])
                  = PartitionMapOf(lobjs, ldicts, linput_dict[nm])
            /\ lobjs'[linput_dict[nm]].partitioned = lobjs[linput_dict[nm]].partitioned
       /\ (/\ lpc = "loop"
           /\ lpos < Len(linputs)
           /\ linputs[lpos + 1].k = "tuple"
           /\ linputs[lpos + 1].partitioned
           /\ linputs[lpos + 1].name \in DOMAIN linput_dict)
          => /\ Len(linputs_new') = Len(linputs_new) + 1
             /\ lobjs'[linputs_new'[Len(linputs_new')]].partitioned
             /\ DOMAIN dict_get(lpartitions, linputs[lpos + 1].name)
                   \subseteq DOMAIN PartitionMapOf(lobjs', ldicts',
                                                   linputs_new'[Len(linputs_new')])]_vars

\* The entries among the first n of self.inputs that resolve, and those
\* that name no cataloged input.
Resolves(e) == e.k = "obj" \/ e.name \in DOMAIN linput_dict
IsAbsent(e) == ~Resolves(e)
NameOfEntry(e) == IF e.k = "obj" THEN lobjs[e.ref].name ELSE e.name

\* C14: an entry, bare name or tuple, whose name is not in the catalog is
\* logged and dropped: load_inputs does not raise, the warning names the
\* absent entry, and the other entries are resolved and kept in their
\* original order.
C14_AbsentInputIsLoggedAndSkipped ==
    /\ lpc # "UnboundLocalError"
    /\ lpc = "loop" =>
          LET done == SubSeq(linputs, 1, lpos)
              kept == SelectSeq(done, Resolves)
              dropped == SelectSeq(done, IsAbsent)
          IN /\ [j \in 1..Len(linputs_new) |-> lobjs[linputs_new[j]].name]
                   = [j \in 1..Len(kept) |-> NameOfEntry(kept[j])]
             /\ lwarn = [j \in 1..Len(dropped) |-> dropped[j].name]

----------------------------------------------------------------------------
(* The driver: main of run-experiments.py *)

\* A loaded suite is held by its name and by whether its load_inputs
\* raises (it names a bare input that is not cataloged).
SuiteNames == {<<"s", "1">>, <<"s", "2">>}
LoadedSuites ==
    {<<>>}
      \cup {<<[name |-> <<"s", "1">>, raises |-> r1]>> : r1 \in BOOLEAN}
      \cup {<<[name |-> <<"s", "1">>, raises |-> r1], [name |-> <<"s", "2">>, raises |-> r2]>> :
               r1 \in BOOLEAN, r2 \in BOOLEAN}
\* The names a command line may give: the suites' names and an unknown one.
CommandLineNames == SuiteNames \cup {<<"x">>}
Machines == {"shared", "generic-job-file"}

\* suites.keys()
suites_keys(suites) == [j \in 1..Len(suites) |-> suites[j].name]

\* suites.get(suitename): the index of the suite, 0 for None
suites_get(suites, suitename) ==
    IF \E j \in 1..Len(suites) : suites[j].name = suitename
    THEN CHOOSE j \in 1..Len(suites) : suites[j].name = suitename
    ELSE 0

InitMain ==
    /\ ExplodeIdle
    /\ RenderIdle
    /\ InputIdle
    /\ LoadIdle
    /\ RunnerIdle
    /\ msuites \in LoadedSuites
    /\ margs \in [suite : SeqsUpTo(CommandLineNames, MaxLen),
                 list : BOOLEAN, list_graphs : BOOLEAN, machine : Machines]
    /\ mpos = 0
    /\ mloads = [s \in SuiteNames |-> 0]
    /\ mexecs = <<>>
    /\ mpc = "load_inputs"

\* for suitename in args.suite: ... suite.load_inputs(inputs, partitions)
MainLoadInputs ==
    /\ mpc = "load_inputs"
    /\ mpos < Len(margs.suite)
    /\ LET suitename == margs.suite[mpos + 1]
           s == suites_get(msuites, suitename)
       IN IF s = 0
          THEN /\ mpos' = mpos + 1
               /\ UNCHANGED <<mloads, mpc>>
          ELSE /\ mloads' = [mloads EXCEPT ![suitename] = @ + 1]
               /\ IF msuites[s].raises
                  THEN /\ mpc' = "UnboundLocalError"
                       /\ UNCHANGED mpos
                  ELSE /\ mpos' = mpos + 1
                       /\ UNCHANGED mpc
    /\ UNCHANGED <<msuites, margs, mexecs>>
    /\ UNCHANGED <<explodeVars, renderVars, inputVars, loadVars, runnerVars>>

\* After the loop: --list and --list-graphs exit; an empty args.suite
\* becomes suites.keys().
MainSelectDefault ==
    /\ mpc = "load_inputs"
    /\ mpos = Len(margs.suite)
    /\ IF margs.list \/ margs.list_graphs
       THEN /\ mpc' = "exit(0)"
            /\ UNCHANGED <<margs, mpos>>
       ELSE /\ margs' = IF margs.suite = <<>>
                        THEN [margs EXCEPT !.suite = suites_keys(msuites)]
                        ELSE margs
            /\ mpos' = 0
            /\ mpc' = "execute"
    /\ UNCHANGED <<msuites, mloads, mexecs>>
    /\ UNCHANGED <<explodeVars, renderVars, inputVars, loadVars, runnerVars>>

\* for suitename in args.suite: ... runner.execute(suite)
MainExecute ==
    /\ mpc = "execute"
    /\ mpos < Len(margs.suite)
    /\ LET suitename == margs.suite[mpos + 1]
       IN mexecs' = IF suites_get(msuites, suitename) # 0
                    THEN Append(mexecs, suitename)
                    ELSE mexecs
    /\ mpos' = mpos + 1
    /\ UNCHANGED <<msuites, margs, mloads, mpc>>
    /\ UNCHANGED <<explodeVars, renderVars, inputVars, loadVars, runnerVars>>

\* The summary for the shared machine reads runner.failed and
\* runner.incorrect: runner is unbound when no suite ran, and no runner has
\* an attribute incorrect.
MainSummary ==
    /\ mpc = "execute"
    /\ mpos = Len(margs.suite)
    /\ mpc' = IF margs.machine = "shared"
              THEN (IF mexecs = <<>> THEN "UnboundLocalError" ELSE "AttributeError")
              ELSE "done"
    /\ UNCHANGED <<msuites, margs, mpos, mloads, mexecs>>
    /\ UNCHANGED <<explodeVars, renderVars, inputVars, loadVars, runnerVars>>

NextMain ==
    \/ MainLoadInputs
    \/ MainSelectDefault
    \/ MainExecute
    \/ MainSummary

SpecMain == InitMain /\ [][NextMain]_vars

----------------------------------------------------------------------------
(* C15: inputs are resolved before a suite runs *)

----------------------------------------------------------------------------
(* Python ints beyond the model checker's integers *)

\* A core count is an unbounded Python int.  Such ints are held as two
\* limbs, hi * 2^27 + lo with 0 <= lo < 2^27, which tells counts up to 2^54
\* apart; None is held as the limbs (None, None).
Base == Pow2(27)
Limbs(hi, lo) == [hi |-> hi, lo |-> lo]
int(i) == Limbs(0, i)
NoneInt == Limbs(None, None)

\* if x:
int_truthy(x) == x # NoneInt /\ x # int(0)

\* x > i and x <= i for an i below 2^27
int_gt(x, i) == x.hi > 0 \/ x.lo > i
int_le(x, i) == ~int_gt(x, i)

\* x + 1
int_add1(x) == IF x.lo + 1 = Base THEN Limbs(x.hi + 1, 0) ELSE Limbs(x.hi, x.lo + 1)

\* divmod(x, t) for 0 < t < 2^15, by long division over the limbs
int_divmod(x, t) ==
    LET r1 == x.hi % t
        rest == r1 * (Base % t) + x.lo
    IN [q |-> Limbs(x.hi \div t, r1 * (Base \div t) + rest \div t), r |-> rest % t]

\* x // t
int_floordiv(x, t) == int_divmod(x, t).q

RECURSIVE str_Limbs(_)
\* str(x)
str_Limbs(x) ==
    IF x = NoneInt THEN <<"N", "o", "n", "e">>
    ELSE IF x.hi = 0 THEN str_int(x.lo)
    ELSE str_Limbs(int_divmod(x, 10).q) \o <<Digits[int_divmod(x, 10).r + 1]>>

\* float(x) for 0 <= x < 2^54.  A double has a 53-bit significand: below
\* 2^53 every int is a double; from 2^53 on only the even ones are, and an
\* odd x is rounded to the neighbour whose significand is even, the
\* multiple of 4.
float(x) ==
    IF x.hi < Pow2(26) \/ x.lo % 2 = 0 THEN x
    ELSE IF x.lo % 4 = 1 THEN Limbs(x.hi, x.lo - 1)
    ELSE int_add1(x)

RECURSIVE ilog2(_)
\* floor(log2(n)) for n >= 1
ilog2(n) == IF n < 2 THEN 0 ELSE 1 + ilog2(n \div 2)

\* m.ceil(f / t) for an integer-valued double f < 2^54 and an int t,
\* 0 < t < 2^15.  With q = f // t and r = f % t the exact quotient is
\* q + r/t; the division rounds it to the nearest double.  The doubles
\* around q >= 2^27 are 1/inv_u apart, inv_u = 2^(52 - floor(log2 q)), and
\* the quotient is rounded down to q, losing its fraction, when r/t is below
\* half that distance, or is exactly half of it and q's significand is
\* even.  Around a q < 2^27 the doubles are less than 2^-25 apart and
\* r/t >= 1/t is never rounded away.
ceil_of_quotient(f, t) ==
    LET d == int_divmod(f, t)
        inv_u == Pow2(25 - ilog2(d.q.hi))
        rounded_down ==
            /\ d.q.hi > 0
            /\ \/ inv_u <= (t - 1) \div (2 * d.r)
               \/ /\ t % (2 * d.r) = 0
                  /\ inv_u = t \div (2 * d.r)
                  /\ (inv_u > 1 \/ d.q.lo % 2 = 0)
    IN IF d.r = 0 \/ rounded_down THEN d.q ELSE int_add1(d.q)

----------------------------------------------------------------------------
(* Job sizing: required_nodes, get_queue, required_islands *)

\* SBatchRunner.required_nodes:
\* int(max(int(m.ceil(float(cores) / tasks_per_node)), 1))
required_nodes(cores, tasks_per_node) ==
    LET c == ceil_of_quotient(float(cores), tasks_per_node)
    IN IF c = int(0) THEN int(1) ELSE c

SuperMUCRunner_get_queue_mut(cores, tasks_per_node, use_test_partition) ==
    LET nodes == required_nodes(cores, tasks_per_node)
    IN IF int_le(nodes, 15) THEN (IF use_test_partition THEN "test" ELSE "micro")
       ELSE IF int_le(nodes, 768) THEN "general"
       ELSE "large"

SuperMUCRunner_get_queue(cores, tasks_per_node, use_test_partition) ==
    LET nodes == required_nodes(cores, tasks_per_node)
    IN IF int_le(nodes, 16) THEN (IF use_test_partition THEN "test" ELSE "micro")
       ELSE IF int_le(nodes, 768) THEN "general"
       ELSE "large"

SuperMUCRunner_required_islands(nodes) == IF int_gt(nodes, 768) THEN 2 ELSE 1

\* What HorekaRunner.get_queue returns above 192 nodes: the exception
\* object, which is returned and not raised.
HorekaValueError == "ValueError('Cannot use more than 192 compute nodes on HoreKa!')"

HorekaRunner_get_queue(cores, tasks_per_node, use_test_partition) ==
    LET nodes == required_nodes(cores, tasks_per_node)
    IN IF int_le(nodes, 12) THEN (IF use_test_partition THEN "dev_cpuonly" ELSE "cpuonly")
       ELSE IF int_le(nodes, 192) THEN "cpuonly"
       ELSE HorekaValueError

HorekaRunner_required_islands(nodes) == 1

\* self.get_queue and self.required_islands of the runner at hand
get_queue(self, cores, tasks_per_node, use_test_partition) ==
    IF self.machine = "supermuc"
    THEN SuperMUCRunner_get_queue(cores, tasks_per_node, use_test_partition)
    ELSE HorekaRunner_get_queue(cores, tasks_per_node, use_test_partition)

required_islands(self, nodes) ==
    IF self.machine = "supermuc"
    THEN SuperMUCRunner_required_islands(nodes)
    ELSE HorekaRunner_required_islands(nodes)

----------------------------------------------------------------------------
(* Job names: config_name and jobname *)

\* config_name without its config segment
config_name_mut(iinput, input_name, mpi_ranks, threads, iconfig, cores, seed) ==
    <<"i", "n">> \o str_int(iinput) \o <<"_">> \o input_name
        \o <<"-", "r">> \o str_Limbs(mpi_ranks)
        \o (IF TruthyInt(threads) THEN <<"-", "t">> \o str_int(threads) ELSE <<>>)

\* BaseRunner.config_name; mpi_ranks and cores are ints or None held as
\* limbs, threads, iconfig and seed small ints or None.
config_name(iinput, input_name, mpi_ranks, threads, iconfig, cores, seed) ==
    LET config_ == <<"i", "n">> \o str_int(iinput) \o <<"_">> \o input_name
        sized == IF int_truthy(cores)
                 THEN config_ \o <<"-", "p">> \o str_Limbs(cores)
                 ELSE config_ \o <<"-", "r">> \o str_Limbs(mpi_ranks)
                        \o (IF TruthyInt(threads) THEN <<"-", "t">> \o str_int(threads) ELSE <<>>)
                        \o (IF iconfig # None THEN <<"-", "c">> \o str_int(iconfig) ELSE <<>>)
    IN sized \o (IF TruthyInt(seed) THEN <<"-", "s">> \o str_int(seed) ELSE <<>>)

\* BaseRunner.jobname
jobname(self, iinput, input_name, mpi_ranks, threads, iconfig, cores, seed) ==
    self.suite_name \o <<"-">>
        \o config_name(iinput, input_name, mpi_ranks, threads, iconfig, cores, seed)

----------------------------------------------------------------------------
(* The backends: SharedMemoryRunner.execute and SBatchRunner.execute *)

MaxJobs == 8                     \* most processes a sample suite has the shared backend run

\* The sample suites.  Of a suite's configs only their number matters here.
InputLists == {<<<<"g">>>>, <<<<"g">>, <<"h">>>>}
CoreLists == {<<int(4)>>, <<int(4), int(5)>>}
ThreadLists == {<<1>>, <<1, 2>>}
SeedLists == {<<0>>, <<1>>, <<0, 1>>}
\* Core counts around the node thresholds of the profiles, and 2^53 + 1.
SizingCores ==
    {int(0), int(1), int(12), int(13), int(16), int(17), int(100), int(192),
     int(193), int(768), int(769), Limbs(Pow2(26), 1)}

JobCount(s) ==
    Len(s.inputs) * Len(s.cores) * Len(s.seeds) * Len(s.threads_per_rank) * s.nconfigs

NamingSuites ==
    {s \in [name : {<<"x">>}, inputs : InputLists, cores : CoreLists,
            threads_per_rank : ThreadLists, seeds : SeedLists,
            nconfigs : 1..MaxLen, tasks_per_node : {None}] :
        JobCount(s) <= MaxJobs}
SizingSuites ==
    [name : {<<"x">>}, inputs : {<<<<"g">>>>}, cores : {<<c>> : c \in SizingCores},
     threads_per_rank : {<<1>>}, seeds : {<<0>>}, nconfigs : {1},
     tasks_per_node : {None, 1}]

\* The configuration records a sample suite can hold.  A suite file may name
\* one record twice (a YAML alias), and explode hands a record with nothing
\* explosive back as the object it was given, so a suite's list may hold one
\* address more than once.
SampleConfigs ==
    << <<[key |-> "a", typ |-> "bare", val |-> IntV(1)]>>,
       <<[key |-> "seed", typ |-> "bare", val |-> IntV(7)],
         [key |-> "a", typ |-> "positional", val |-> IntV(2)]>> >>
ConfigLists(n) == [1..n -> 1..Len(SampleConfigs)]

\* d[key] = val on a dictionary held as a sequence of options in key order
dict_setitem(d, key, val) ==
    IF \E i \in 1..Len(d) : d[i].key = key
    THEN [i \in 1..Len(d) |->
            IF d[i].key = key THEN [key |-> key, typ |-> "bare", val |-> val] ELSE d[i]]
    ELSE Append(d, [key |-> key, typ |-> "bare", val |-> val])

\* copy.deepcopy of a list of records: every distinct object of the list is
\* copied once to a fresh address (deepcopy's memo), and the copied list
\* refers to the copies.
deepcopy_list(store, lst) ==
    LET distinct == {lst[j] : j \in 1..Len(lst)}
        rank(a) == Cardinality({b \in distinct : b <= a})
    IN [store |-> store \o [r \in 1..Cardinality(distinct) |->
                                store[CHOOSE a \in distinct : rank(a) = r]],
        list |-> [j \in 1..Len(lst) |-> Len(store) + rank(lst[j])]]

RECURSIVE enumerate_idx(_, _, _)
\* for i, c in enumerate(configs): c["idx"] = i
enumerate_idx(store, lst, j) ==
    IF j > Len(lst)
    THEN store
    ELSE enumerate_idx([store EXCEPT ![lst[j]] = dict_setitem(@, "idx", IntV(j - 1))],
                       lst, j + 1)

\* BaseRunner.dump_config: the store after the call and the records written
dump_config(store, experiment_suite_configs) ==
    LET cp == deepcopy_list(store, experiment_suite_configs)
        st == enumerate_idx(cp.store, cp.list, 1)
    IN [store |-> st, file |-> [j \in 1..Len(cp.list) |-> st[cp.list[j]]]]

\* str(json_output_prefix_path): a string; its text, the output directory
\* joined with the job's name, is not held
PathString == [k |-> "str", n |-> 0, items |-> <<>>]

\* BaseRunner.make_cmd_for_config up to the call of expcore.command: the
\* store after the call and the dictionary handed on as **config
make_cmd_for_config(self, store, config_, seed) ==
    LET copy == store[config_]
        with_path == IF ~self.omit_output_path
                     THEN dict_setitem(copy, self.output_path_option_name, PathString)
                     ELSE copy
        with_seed == IF ~self.omit_seed
                     THEN dict_setitem(with_path, "seed", IntV(seed))
                     ELSE with_path
    IN [store |-> store, config |-> with_seed]

\* SharedMemoryRunner.__init__
SharedMemoryRunner_init(suite_name, max_cores, omit_output_path, omit_seed) ==
    [machine |-> "shared", suite_name |-> suite_name, max_cores |-> max_cores,
     tasks_per_node |-> None, use_test_partition |-> FALSE,
     output_path_option_name |-> "json_output_path",
     omit_output_path |-> omit_output_path, omit_seed |-> omit_seed,
     failed |-> 0, total_jobs |-> 0]

\* SuperMUCRunner.__init__ and HorekaRunner.__init__ with no tasks_per_node
\* given: 48 and 76 tasks per node
SBatchRunner_init(suite_name, machine, use_test_partition, omit_output_path, omit_seed) ==
    [machine |-> machine, suite_name |-> suite_name, max_cores |-> None,
     tasks_per_node |-> IF machine = "supermuc" THEN 48 ELSE 76,
     use_test_partition |-> use_test_partition,
     output_path_option_name |-> "json_output_path",
     omit_output_path |-> omit_output_path, omit_seed |-> omit_seed,
     failed |-> None, total_jobs |-> None]

InitRunner ==
    /\ ExplodeIdle
    /\ RenderIdle
    /\ InputIdle
    /\ LoadIdle
    /\ MainIdle
    /\ \E omit_output_path \in BOOLEAN, omit_seed \in BOOLEAN :
          \/ /\ suite \in NamingSuites
             /\ \E mc \in {2, 4, 8} :
                   runner = SharedMemoryRunner_init(suite.name, mc, omit_output_path,
                                                    omit_seed)
          \/ /\ suite \in NamingSuites \cup SizingSuites
             /\ \E ma \in {"supermuc", "horeka"}, u \in BOOLEAN :
                   runner = SBatchRunner_init(suite.name, ma, u, omit_output_path,
                                              omit_seed)
    /\ cfgs = SampleConfigs
    /\ suite_configs \in ConfigLists(suite.nconfigs)
    /\ config_json = <<>>
    /\ jpos = 0
    /\ jobs = <<>>
    /\ scripts = <<>>
    /\ jpc = "dump_config"

\* self.dump_config(experiment_suite), the first statement of both execute
\* methods; the copies it made are dropped when it returns.
DumpConfig ==
    /\ jpc = "dump_config"
    /\ LET r == dump_config(cfgs, suite_configs)
       IN /\ config_json' = r.file
          /\ cfgs' = SubSeq(r.store, 1, Len(cfgs))
    /\ jpc' = "execute"
    /\ UNCHANGED <<suite, runner, jpos, jobs, scripts, suite_configs>>
    /\ UNCHANGED <<explodeVars, renderVars, inputVars, loadVars, mainVars>>

\* the loop over core counts without its skip
WithinMaxCores_mut(ncores) == TRUE

\* if ncores > self.max_cores: continue
WithinMaxCores(ncores) == ~int_gt(ncores, runner.max_cores)
SharedCores == SelectSeq(suite.cores, WithinMaxCores)

\* counting every exit as a failure
SharedMemoryRunner_count_mut(self, returncode) ==
    [self EXCEPT !.failed = @ + 1, !.total_jobs = @ + 1]

\* if ret.returncode == 0: ... else: self.failed += 1, and then
\* self.total_jobs += 1
SharedMemoryRunner_count(self, returncode) ==
    [self EXCEPT !.failed = IF returncode = 0 THEN @ ELSE @ + 1,
                 !.total_jobs = @ + 1]

\* One pass through the body of SharedMemoryRunner.execute's innermost
\* loop: the loops run over inputs, core counts, seeds, thread counts and
\* configs, in this order from the outside in, and jpos counts the passes.
SharedMemoryRunnerJob ==
    /\ jpc = "execute"
    /\ runner.machine = "shared"
    /\ jpos < Len(suite.inputs) * Len(SharedCores) * Len(suite.seeds)
                 * Len(suite.threads_per_rank) * suite.nconfigs
    /\ LET nC == suite.nconfigs
           nT == Len(suite.threads_per_rank)
           nS == Len(suite.seeds)
           nK == Len(SharedCores)
           i == jpos % nC
           threads == suite.threads_per_rank[((jpos \div nC) % nT) + 1]
           seed == suite.seeds[((jpos \div (nC * nT)) % nS) + 1]
           ncores == SharedCores[((jpos \div (nC * nT * nS)) % nK) + 1]
           iinput == jpos \div (nC * nT * nS * nK)
           input == suite.inputs[iinput + 1]
           mpi_ranks == int_floordiv(ncores, threads)
           \* self.config_name(iinput, input, mpi_ranks, threads, i, seed):
           \* the sixth parameter of config_name is cores
           config_job_name ==
               config_name(iinput, input, mpi_ranks, threads, i, int(seed), None)
           cmd == make_cmd_for_config(runner, cfgs, suite_configs[i + 1], seed)
       IN \E returncode \in {0, 1} :
             /\ jobs' = Append(jobs,
                   [iinput |-> iinput, ncores |-> ncores, threads |-> threads,
                    iconfig |-> i, seed |-> seed, mpi_ranks |-> mpi_ranks,
                    name |-> config_job_name, cmd_config |-> cmd.config,
                    returncode |-> returncode])
             /\ cfgs' = cmd.store
             /\ runner' = SharedMemoryRunner_count(runner, returncode)
    /\ jpos' = jpos + 1
    /\ UNCHANGED <<suite, scripts, suite_configs, config_json, jpc>>
    /\ UNCHANGED <<explodeVars, renderVars, inputVars, loadVars, mainVars>>

\* One pass through the body of SBatchRunner.execute's loop over core
\* counts (inside the loop over inputs): the job script of one input and
\* core count, holding one command per thread count, config and seed, is
\* written.
SBatchRunnerJobFile ==
    /\ jpc = "execute"
    /\ runner.machine # "shared"
    /\ jpos < Len(suite.inputs) * Len(suite.cores)
    /\ LET nC == suite.nconfigs
           nS == Len(suite.seeds)
           nT == Len(suite.threads_per_rank)
           iinput == jpos \div Len(suite.cores)
           input == suite.inputs[iinput + 1]
           ncores == suite.cores[(jpos % Len(suite.cores)) + 1]
           tasks_per_node == IF TruthyInt(suite.tasks_per_node)
                             THEN suite.tasks_per_node
                             ELSE runner.tasks_per_node
           aggregate_jobname ==
               jobname(runner, iinput, input, NoneInt, None, None, ncores, None)
           nodes == required_nodes(ncores, tasks_per_node)
           \* the loops over thread counts, configs and seeds, from the
           \* outside in
           variant(v) ==
               LET seed == suite.seeds[(v % nS) + 1]
                   i == (v \div nS) % nC
                   threads_per_rank == suite.threads_per_rank[(v \div (nS * nC)) + 1]
                   mpi_ranks == int_floordiv(ncores, threads_per_rank)
               IN [iinput |-> iinput, ncores |-> ncores, threads |-> threads_per_rank,
                   iconfig |-> i, seed |-> seed, mpi_ranks |-> mpi_ranks,
                   \* self.jobname(iinput, input, mpi_ranks, threads_per_rank,
                   \* i, seed): the sixth parameter of jobname is cores
                   name |-> jobname(runner, iinput, input, mpi_ranks,
                                    threads_per_rank, i, int(seed), None),
                   cmd_config |->
                       make_cmd_for_config(runner, cfgs, suite_configs[i + 1],
                                           seed).config,
                   returncode |-> None]
           variants == [v \in 1..(nT * nC * nS) |-> variant(v - 1)]
       IN /\ jobs' = jobs \o variants
          /\ scripts' = Append(scripts,
                [job_name |-> aggregate_jobname,
                 nodes |-> nodes,
                 ntasks |-> ncores,
                 ntasks_per_node |-> tasks_per_node,
                 job_queue |-> get_queue(runner, ncores, tasks_per_node,
                                         runner.use_test_partition),
                 islands |-> required_islands(runner, nodes),
                 commands |-> [v \in 1..Len(variants) |-> variants[v].name]])
    /\ jpos' = jpos + 1
    \* make_cmd_for_config hands the store back as it got it
    /\ cfgs' = cfgs
    /\ UNCHANGED <<suite, runner, suite_configs, config_json, jpc>>
    /\ UNCHANGED <<explodeVars, renderVars, inputVars, loadVars, mainVars>>

\* The loops are done: the summary is printed and execute returns.
RunnerFinish ==
    /\ jpc = "execute"
    /\ jpos = IF runner.machine = "shared"
              THEN Len(suite.inputs) * Len(SharedCores) * Len(suite.seeds)
                      * Len(suite.threads_per_rank) * suite.nconfigs
              ELSE Len(suite.inputs) * Len(suite.cores)
    /\ jpc' = "finished"
    /\ UNCHANGED <<suite, runner, jpos, jobs, scripts, cfgs, suite_configs,
                   config_json>>
    /\ UNCHANGED <<explodeVars, renderVars, inputVars, loadVars, mainVars>>

NextRunner ==
    \/ DumpConfig
    \/ SharedMemoryRunnerJob
    \/ SBatchRunnerJobFile
    \/ RunnerFinish

SpecRunner == InitRunner /\ [][NextRunner]_vars

----------------------------------------------------------------------------
(* C16..C18: job sizing *)

\* max(1, ceil(cores / tasks_per_node)) in integer arithmetic
ExactNodes(cores, tasks_per_node) ==
    LET d == int_divmod(cores, tasks_per_node)
        c == IF d.r = 0 THEN d.q ELSE int_add1(d.q)
    IN IF c = int(0) THEN int(1) ELSE c

\* C16: for every core count >= 0 and every tasks_per_node >= 1 the node
\* count of a job script is max(1, ceil(cores / tasks_per_node)), never below
\* 1; required_nodes(100, 48) = 3 and required_nodes(1, 1) = 1.
C16_RequiredNodesIsCeiling ==
    /\ required_nodes(int(100), 48) = int(3)
    /\ required_nodes(int(1), 1) = int(1)
    /\ \A j \in 1..Len(scripts) :
          /\ scripts[j].nodes = ExactNodes(scripts[j].ntasks, scripts[j].ntasks_per_node)
          /\ int_gt(scripts[j].nodes, 0)

\* C17: on SuperMUC a job script's queue is test (with use_test_partition)
\* or micro (without) exactly when its node count
\* required_nodes(cores, tasks_per_node) is at most 16, general exactly when
\* it is 17..768 and large exactly when it is above 768; its island count is
\* 2 exactly when the node count is above 768, that is exactly when the
\* queue is large, and 1 otherwise.
C17_SuperMUCQueueFollowsNodes ==
    runner.machine = "supermuc" =>
        \A j \in 1..Len(scripts) :
            LET s == scripts[j]
                small == int_le(s.nodes, 16)
                large == int_gt(s.nodes, 768)
            IN /\ s.nodes = required_nodes(s.ntasks, s.ntasks_per_node)
               /\ s.job_queue \in {"test", "micro", "general", "large"}
               /\ (s.job_queue \in {"test", "micro"}) <=> small
               /\ small => s.job_queue = (IF runner.use_test_partition
                                          THEN "test" ELSE "micro")
               /\ (s.job_queue = "general") <=> (~small /\ ~large)
               /\ (s.job_queue = "large") <=> large
               /\ s.islands = (IF large THEN 2 ELSE 1)
               /\ (s.islands = 2) <=> (s.job_queue = "large")

C17_Witness ==
    /\ jpc = "finished"
    /\ runner.machine = "supermuc"
    /\ runner.use_test_partition
    /\ Len(scripts) = 1
    /\ scripts[1].ntasks = int(769)
    /\ scripts[1].ntasks_per_node = 1
    /\ scripts[1].nodes = int(769)
    /\ scripts[1].job_queue = "large"
    /\ scripts[1].islands = 2

\* C18: on HoreKa no job script is written for a job of more than 192
\* nodes, and the queue of a written script is a queue class.
C18_HorekaRejectsMoreThan192Nodes ==
    runner.machine = "horeka" =>
        \A j \in 1..Len(scripts) :
            /\ int_le(scripts[j].nodes, 192)
            /\ scripts[j].job_queue \in {"cpuonly", "dev_cpuonly"}

----------------------------------------------------------------------------
(* C19, C20: job names *)

\* C19: the jobs of one run have pairwise distinct names, whatever the
\* lists of core counts, thread counts and seeds are.
C19_JobNamesAreDistinct ==
    \A a \in 1..Len(jobs) : \A b \in 1..Len(jobs) :
        a # b => jobs[a].name # jobs[b].name

\* The name in<i>_<N>-r<r>-t<t>-c<c>, with -s<s> appended or not.
VariantNameForm(job, with_seed) ==
    <<"i", "n">> \o str_int(job.iinput) \o <<"_">> \o suite.inputs[job.iinput + 1]
        \o <<"-", "r">> \o str_Limbs(job.mpi_ranks)
        \o <<"-", "t">> \o str_int(job.threads)
        \o <<"-", "c">> \o str_int(job.iconfig)
        \o (IF with_seed THEN <<"-", "s">> \o str_int(job.seed) ELSE <<>>)

\* The batch backend puts the suite's name in front of a name.
NamePrefix == IF runner.machine = "shared" THEN <<>> ELSE runner.suite_name \o <<"-">>

\* C20: the name of a per-variant job is in<i>_<N>-r<r>-t<t>-c<c>-s<s>, the
\* segments carrying the job's ranks, threads, config index and seed (the
\* seed segment may be left out for seed 0), and the aggregate batch job
\* name has no thread, config or seed segment.
C20_JobNameForm ==
    /\ \A j \in 1..Len(jobs) :
          \/ jobs[j].name = NamePrefix \o VariantNameForm(jobs[j], TRUE)
          \/ /\ jobs[j].seed = 0
             /\ jobs[j].name = NamePrefix \o VariantNameForm(jobs[j], FALSE)
    /\ \A j \in 1..Len(scripts) :
          LET segments == Split(scripts[j].job_name, "-")
          IN \A q \in 3..Len(segments) :
                segments[q] = <<>> \/ segments[q][1] \notin {"t", "c", "s"}

----------------------------------------------------------------------------
(* A suite file from load_suite_from_yaml to the end of execute *)

\* The config entry of a sample suite file: one record of one option, or of
\* that option and a scalar.
SuiteRecords ==
    {<<a>> : a \in Options("a")}
        \cup {<<a, [key |-> "b", typ |-> "bare", val |-> IntV(1)]>> : a \in Options("a")}

InitSuite ==
    /\ RenderIdle
    /\ InputIdle
    /\ LoadIdle
    /\ MainIdle
    /\ RunnerIdle
    /\ \E rec \in SuiteRecords :
          /\ heap = Load(rec).heap
          /\ config = Load(rec).config
          /\ input0 = rec
    /\ configs = <<>>
    /\ pc = "ready"

\* load_suite_from_yaml for a file whose config entry is one record, with
\* one input and one core count: configs = explode(data["config"]), and
\* the ExperimentSuite is built from them.  Every returned record is an
\* object of its own and is read as it stands when explode has returned.
LoadSuiteFromYaml ==
    /\ pc = "ready"
    /\ jpc = "idle"
    /\ LET r == explode(heap, config)
       IN /\ heap' = r.heap
          /\ configs' = r.configs
          /\ cfgs' = [j \in 1..Len(r.configs) |-> Deref(r.heap, r.configs[j])]
          /\ suite_configs' = [j \in 1..Len(r.configs) |-> j]
          /\ \E threads_per_rank \in ThreadLists, seeds \in {<<0>>, <<1>>} :
                /\ Len(r.configs) * Len(threads_per_rank) <= MaxJobs
                /\ suite' = [name |-> <<"x">>, inputs |-> <<<<"g">>>>,
                             cores |-> <<int(4)>>,
                             threads_per_rank |-> threads_per_rank,
                             seeds |-> seeds, nconfigs |-> Len(r.configs),
                             tasks_per_node |-> None]
    /\ pc' = "exploded"
    /\ jpc' = "get_runner"
    /\ UNCHANGED <<config, input0, runner, jpos, jobs, scripts, config_json>>
    /\ UNCHANGED <<renderVars, inputVars, loadVars, mainVars>>

\* get_runner(args, suite) for the machines shared, supermuc and horeka
GetRunner ==
    /\ jpc = "get_runner"
    /\ \E omit \in BOOLEAN :
          \/ \E mc \in {2, 4, 8} :
                runner' = SharedMemoryRunner_init(suite.name, mc, omit, omit)
          \/ \E ma \in {"supermuc", "horeka"} :
                runner' = SBatchRunner_init(suite.name, ma, FALSE, omit, omit)
    /\ jpc' = "dump_config"
    /\ UNCHANGED <<suite, jpos, jobs, scripts, cfgs, suite_configs, config_json>>
    /\ UNCHANGED <<explodeVars, renderVars, inputVars, loadVars, mainVars>>

NextSuite ==
    \/ LoadSuiteFromYaml
    \/ GetRunner
    \/ DumpConfig
    \/ SharedMemoryRunnerJob
    \/ SBatchRunnerJobFile
    \/ RunnerFinish

SpecSuite == InitSuite /\ [][NextSuite]_vars

----------------------------------------------------------------------------
(* C21: from one exploded config to the job names *)

\* The case of C21 at the end of execute: one core count, seeds = [0],
\* pairwise distinct thread counts, and option i the record's only
\* explosive option (the case of C1).
C21Case(i) ==
    /\ jpc = "finished"
    /\ Len(suite.cores) = 1
    /\ suite.seeds = <<0>>
    /\ \A a \in 1..Len(suite.threads_per_rank) : \A b \in 1..Len(suite.threads_per_rank) :
          a # b => suite.threads_per_rank[a] # suite.threads_per_rank[b]
    /\ C1Case(i)

JobNames == {jobs[j].name : j \in 1..Len(jobs)}

\* What C21 says of option i: K records, and T*K jobs with T*K names.
C21Holds(i) ==
    LET K == Len(input0[i].val.items)
        T == Len(suite.threads_per_rank)
    IN /\ Len(configs) = K
       /\ Len(suite_configs) = K
       /\ Len(jobs) = T * K
       /\ Cardinality(JobNames) = T * K

----------------------------------------------------------------------------
(* C22, C23: the immediate backend *)

\* The processes invoked so far for input ii, core count c, seed s, thread
\* count t and config k.
JobsOf(ii, c, s, t, k) ==
    {j \in 1..Len(jobs) :
        /\ jobs[j].iinput = ii
        /\ jobs[j].ncores = c
        /\ jobs[j].seed = s
        /\ jobs[j].threads = t
        /\ jobs[j].iconfig = k}

\* In every state each invoked process has exited and has been counted.
ProcessesRunInTurn ==
    /\ runner.total_jobs = Len(jobs)
    /\ \A j \in 1..Len(jobs) : jobs[j].returncode \in {0, 1}

\* Exactly one process for every combination over the core counts in cs.
OnePerCombination(cs) ==
    \A ii \in 0..(Len(suite.inputs) - 1), c \in cs,
       s \in 1..Len(suite.seeds), t \in 1..Len(suite.threads_per_rank),
       k \in 0..(suite.nconfigs - 1) :
        Cardinality(JobsOf(ii, suite.cores[c], suite.seeds[s],
                           suite.threads_per_rank[t], k)) = 1

\* The positions of the core counts that do not exceed max_cores.
CoresRun == {c \in 1..Len(suite.cores) : ~int_gt(suite.cores[c], runner.max_cores)}

\* C22 as stated: the immediate backend invokes exactly one process for
\* every combination of the suite's inputs, core counts, seeds, thread
\* counts and configs, one after another, so that when execute finishes
\* total_jobs = |inputs| * |cores| * |seeds| * |threads_per_rank| * |configs|.
C22_OneProcessPerCombination ==
    runner.machine = "shared" =>
        /\ ProcessesRunInTurn
        /\ jpc = "finished" =>
              /\ OnePerCombination(1..Len(suite.cores))
              /\ runner.total_jobs = JobCount(suite)

\* C22 as amended: one process, one after another, for every combination
\* whose core count does not exceed max_cores, and none for the others;
\* when execute finishes total_jobs is the number of those combinations.
C22_OneProcessPerCombinationWithinMaxCores ==
    runner.machine = "shared" =>
        /\ ProcessesRunInTurn
        /\ jpc = "finished" =>
              /\ OnePerCombination(CoresRun)
              /\ \A j \in 1..Len(jobs) :
                    \E c \in CoresRun : jobs[j].ncores = suite.cores[c]
              /\ runner.total_jobs =
                    Len(suite.inputs) * Cardinality(CoresRun) * Len(suite.seeds)
                        * Len(suite.threads_per_rank) * suite.nconfigs

\* execute has finished on a suite of which one core count was run and one
\* was skipped.
C22_Witness ==
    /\ runner.machine = "shared"
    /\ jpc = "finished"
    /\ Cardinality(CoresRun) = 1
    /\ Len(suite.cores) = 2
    /\ runner.total_jobs >= 2

\* The invoked processes that exited non-zero.
FailedJobs == {j \in 1..Len(jobs) : jobs[j].returncode # 0}

\* C23: in the immediate backend a non-zero exit adds exactly one to the
\* failure counter and never stops or skips the jobs that follow: in every
\* state failed <= total_jobs, failed is the number of invoked processes
\* that exited non-zero and total_jobs the number invoked, and when execute
\* finishes every combination it runs has been invoked, wherever the
\* failures occurred.
C23_FailuresAreCountedAndDoNotStop ==
    runner.machine = "shared" =>
        /\ runner.failed <= runner.total_jobs
        /\ runner.failed = Cardinality(FailedJobs)
        /\ runner.total_jobs = Len(jobs)
        /\ jpc = "finished" =>
              Len(jobs) = Len(suite.inputs) * Cardinality(CoresRun) * Len(suite.seeds)
                             * Len(suite.threads_per_rank) * suite.nconfigs

\* execute has finished after a failed process that was followed by a
\* successful one.
C23_Witness ==
    /\ runner.machine = "shared"
    /\ jpc = "finished"
    /\ \E a \in 1..Len(jobs), b \in 1..Len(jobs) :
          a < b /\ jobs[a].returncode = 1 /\ jobs[b].returncode = 0
    /\ runner.failed >= 1
    /\ runner.failed < runner.total_jobs

----------------------------------------------------------------------------
(* C24: config.json and the suite's records *)

\* The record at position j of the suite's config sequence, as the suite
\* was handed to execute.
SuiteRecord(j) == SampleConfigs[suite_configs[j]]

\* C24: dump_config writes every configuration record of the suite, in
\* suite order, each with an injected field idx equal to its 0-based
\* position in the suite's config sequence, and neither dump_config nor
\* make_cmd_for_config changes a record held by the suite: none gains an
\* idx field, an output-path option or a seed.
C24_DumpConfigIndexesCopies ==
    jpc \in {"execute", "finished"} =>
        /\ Len(config_json) = Len(suite_configs)
        /\ \A j \in 1..Len(config_json) :
              config_json[j] = dict_setitem(SuiteRecord(j), "idx", IntV(j - 1))
        /\ cfgs = SampleConfigs
        /\ \A a \in 1..Len(cfgs) : \A i \in 1..Len(cfgs[a]) :
              cfgs[a][i].key \notin {"idx", runner.output_path_option_name}

----------------------------------------------------------------------------
(* C25: the returned records are terminal *)

\* C25: every record returned by explode is terminal: it holds no option
\* that is_argument_explosive or the bare-list rule would still treat as
\* explosive, and explode applied to it returns just that record; this for
\* every input record, also with an empty list as an option value, an empty
\* list of lists under a list-typed option or nested bare lists.
C25_ReturnedRecordsAreTerminal ==
    pc = "exploded" =>
        \A j \in 1..Len(configs) :
            /\ \A i \in 1..Len(configs[j]) : ~IsPivot(heap, configs[j], i)
            /\ explode(heap, configs[j]).configs = <<configs[j]>>

====
